---- MODULE Spec2Model ----
(***************************************************************************)
(* A model of passa's dependency lookup (src/passa/dependencies.py): the   *)
(* persistent dependency cache, the cache tier that validates and heals    *)
(* it, the JSON-API tier, the wheel-building tier and the chain            *)
(* get_dependencies that runs them in order.                               *)
(***************************************************************************)
EXTENDS Integers, Sequences, FiniteSets, TLC

\* ---------------------------------------------------------------- bounds

\* Longest dependency list the cache holds when the program starts.
MaxCached == 1
\* Longest dependency list an index sends, all lists up to it being sent.
MaxLen == 1
\* Longest `sources` list handed to get_dependencies.
MaxSources == 2
\* Most entries of a wheel's run_requires.
MaxEntries == 2
\* Most lookups that run at the same time.
MaxLookups == 2
\* Most clauses of a specifier.
MaxSpecs == 2
\* Most uses of VirtualEnv.activated(), one after the other.
MaxActivations == 2
\* Most packages a Pipfile names.
MaxPackages == 2

\* ----------------------------------------------------------------- data

Extras == {"security", "dotenv"}

\* A dependency line (a string in the code) by what the parser makes of it:
\* the package name as written, the extras its marker gates on, whether the
\* marker also has a non-extra clause (os_name == "nt"), and how the text is
\* written: "canon" is the text as_line prints, "loose" is other text for
\* the same requirement, "bad" is text that does not parse.
Ln(n, x, e, f) == [name |-> n, extras |-> x, env |-> e, form |-> f]

LnPlain == Ln("c", {}, FALSE, "canon")
LnSelf == Ln("a", {}, FALSE, "canon")
LnSec == Ln("d", {"security"}, FALSE, "canon")
LnDotEnv == Ln("e", {"dotenv"}, TRUE, "canon")
LnEnv == Ln("e", {}, TRUE, "loose")
LnBad == Ln("x", {}, FALSE, "bad")

Lines == {LnPlain, LnSelf, LnSec, LnDotEnv, LnEnv, LnBad}
\* The lines the cache, the indexes and the wheels of the chain hold: a valid
\* line, a line naming the package itself, a line with an extra marker and a
\* line that does not parse.
ChainLines == {LnPlain, LnSelf, LnSec, LnBad}

RECURSIVE SeqsUpTo(_, _)
SeqsUpTo(S, n) ==
    IF n = 0 THEN {<<>>}
    ELSE LET shorter == SeqsUpTo(S, n - 1)
         IN shorter \cup {Append(s, x) : s \in {t \in shorter : Len(t) = n - 1}, x \in S}

\* packaging.utils.canonicalize_name: lower-cases the name.
canonicalize_name(n) == IF n = "A" THEN "a" ELSE n

\* requirementslib.Requirement.from_line: raises on text that does not
\* parse, otherwise yields the requirement; the way the text was written is
\* not part of the parsed object.
CanParse(line) == line.form # "bad"
from_line(line) ==
    [name |-> line.name, markers |-> [extras |-> line.extras, env |-> line.env]]
normalized_name(req) == canonicalize_name(req.name)
\* Requirement.as_line: prints the requirement in the canonical text.
as_line(req) == Ln(req.name, req.markers.extras, req.markers.env, "canon")
\* `if r.markers`: a requirement without any marker clause has markers None.
HasMarkers(req) == req.markers.extras # {} \/ req.markers.env

\* passa.markers (not among the source files): the marker filter.
contains_extra(m) == m.extras # {}
get_contained_extras(m) == m.extras
get_without_extra(m) == [extras |-> {}, env |-> m.env]

\* Results of a getter: None, a list, or a raised exception.
RetNone == [kind |-> "none"]
RetList(l) == [kind |-> "list", val |-> l]
Raised(e) == [kind |-> "raise", exc |-> e]
NotRun == [kind |-> "notrun"]

\* ------------------------------------------------------- requirements

\* A version is its dot-separated segments; a specifier is a set of
\* (operator, version) pairs.
V10 == <<"1", "0">>
PinnedSpec == {<<"==", V10>>}
RangeSpec == {<<">=", V10>>}
NoSpec == {}

EndsWithDotStar(v) == Len(v) >= 2 /\ v[Len(v)] = "*"

\* get_pinned_version taking "==" alone for a pin.
get_pinned_version_OnlyEq(ireq) ==
    IF "specifier" \notin DOMAIN ireq THEN Raised("TypeError")
    ELSE IF "editable" \notin DOMAIN ireq THEN Raised("AttributeError")
    ELSE IF ireq.editable \/ Cardinality(ireq.specifier) # 1 THEN Raised("ValueError")
    ELSE LET s == CHOOSE s \in ireq.specifier : TRUE
         IN IF s[1] # "==" \/ EndsWithDotStar(s[2])
            THEN Raised("ValueError")
            ELSE [kind |-> "version", val |-> s[2]]

\* utils.get_pinned_version: the version, or the exception it raises. An
\* object without a specifier attribute gives TypeError (lines 68-73); one
\* with a specifier and no editable attribute fails at line 75.
get_pinned_version(ireq) ==
    IF "specifier" \notin DOMAIN ireq THEN Raised("TypeError")
    ELSE IF "editable" \notin DOMAIN ireq THEN Raised("AttributeError")
    ELSE IF ireq.editable THEN Raised("ValueError")
    ELSE IF ireq.specifier = {} THEN Raised("ValueError")
    ELSE IF Cardinality(ireq.specifier) # 1 THEN Raised("ValueError")
    ELSE LET s == CHOOSE s \in ireq.specifier : TRUE
         IN IF s[1] \notin {"==", "==="} \/ EndsWithDotStar(s[2])
            THEN Raised("ValueError")
            ELSE [kind |-> "version", val |-> s[2]]

\* utils.is_pinned: what the call gives, a boolean or the exception that
\* its except clause does not catch; and the boolean for a requirement.
Bool(b) == [kind |-> "bool", val |-> b]
is_pinned_call(ireq) ==
    LET v == get_pinned_version(ireq)
    IN IF v.kind # "raise" THEN Bool(TRUE)
       ELSE IF v.exc \in {"TypeError", "ValueError"} THEN Bool(FALSE)
       ELSE v
is_pinned(ireq) == is_pinned_call(ireq) = Bool(TRUE)

\* requirementslib.models.utils.is_pinned_requirement, as _cached calls it:
\* the same four conditions.
is_pinned_requirement(ireq) == is_pinned(ireq)

NoReq == [name |-> "A", specifier |-> NoSpec, editable |-> FALSE, extras |-> {}]

\* The requirements looked up: pinned or not, with or without an extra, and
\* an editable one.
IReqs ==
    {r \in [name : {"A"}, specifier : {PinnedSpec, RangeSpec}, editable : BOOLEAN,
            extras : {{}, {"security"}}] :
        r.editable => (r.extras = {} /\ r.specifier = PinnedSpec)}

\* ---------------------------------------------------------------- cache

\* A key without the extras.
as_cache_key_NoExtras(ireq) ==
    <<canonicalize_name(ireq.name), get_pinned_version(ireq).val, {}>>

\* DEPENDENCY_CACHE is requirementslib's DependencyCache. Its key for a
\* requirement (as_cache_key) is the canonical name, the pinned version and
\* the sorted extras; computing it raises TypeError for a requirement that
\* is not pinned, before any entry is touched.
as_cache_key(ireq) ==
    <<canonicalize_name(ireq.name), get_pinned_version(ireq).val, ireq.extras>>

Keys == {as_cache_key(r) : r \in {q \in IReqs : is_pinned_requirement(q)}}

Absent == [has |-> FALSE, val |-> <<>>]
Entry(l) == [has |-> TRUE, val |-> l]

VARIABLES
    cache,      \* DEPENDENCY_CACHE: key -> Absent or Entry(list of lines)
    pc,         \* where get_dependencies stands
    ireq,       \* the requirement of the current call
    last_exc,   \* get_dependencies' last_exc
    todo,       \* the JSON tier's url_prefixes still to request
    tiers,      \* what each getter of the current call gave
    outcome,    \* what the current call gave its caller
    order,      \* the getters invoked in the current call, in order
    cacheOps,   \* the cache operations of the current call, in order
    requests,   \* the candidates requested in the current call, in order,
                \* each with whether its try block ran to its end
    builds,     \* build_wheel invocations in the current call
    served,     \* the lines of the response the JSON tier took its list from
    prev,       \* the previous call, when it was for a pinned requirement
                \* and the wheel build answered it
    wheel,      \* _read_requirements on its own: the wheel's run_requires
    reqs        \* _read_requirements on its own: what it gave

\* The state of the parts looked at on their own.
VARIABLES
    sources,    \* the JSON tier on its own: the sources it is given
    response,   \* one candidate on its own: the response to its request
    dependencies, \* one candidate on its own: what its try block gave
    lookups,    \* lookups running at the same time: where each one is, the
                \* entry it read and what it gave
    arg,        \* utils on its own: the object handed to the functions
    version,    \* utils on its own: what get_pinned_version gave
    pinned      \* utils on its own: what is_pinned gave

\* The interpreter and one VirtualEnv (models/virtualenv.py).
VARIABLES
    lists,      \* the list objects there are, by reference: their items
    syspath,    \* sys.path: a reference to a list
    sysprefix,  \* sys.prefix
    venv_sys_path, \* the VirtualEnv's cached sys_path: a reference to a
                \* list, 0 while the property has not been computed
    activation, \* the latest use of activated(): where it stands, its
                \* locals, and the cached list's items at its entry
    activations \* uses of activated() begun

venv == <<lists, syspath, sysprefix, venv_sys_path, activation, activations>>

\* The remove command (cli/remove.py) and the project's two files.
VARIABLES
    options,    \* the parsed command line: packages and only
    disk,       \* the Pipfile and the lock file as they are on disk
    project,    \* the Project in memory: its Pipfile and its lock file
    step,       \* where main stands
    success,    \* what lock(locker) gave
    status,     \* what main gave: its return value, or that it raised
    writes      \* the files written by main, in order

cli == <<options, disk, project, step, success, status, writes>>

apart == <<sources, response, dependencies, lookups, arg, version, pinned, venv, cli>>

vars == <<cache, pc, ireq, last_exc, todo, tiers, outcome, order, cacheOps,
          requests, builds, served, prev, wheel, reqs, apart>>

JsonIdle == sources = <<>>
CandidateIdle == response = [kind |-> "none"] /\ dependencies = NotRun
Lookups == 1..MaxLookups
LookupAt(at, cached, out) == [pc |-> at, cached |-> cached, out |-> out]
LookupsIdle == lookups = [p \in Lookups |-> LookupAt("off", <<>>, RetNone)]
UtilsIdle == arg = NoReq /\ version = NotRun /\ pinned = NotRun
NoActivation ==
    [pc |-> "never", how |-> "none", original_path |-> 1, original_prefix |-> "/usr",
     path |-> <<>>, computed |-> FALSE, cached |-> <<>>]
VenvIdle ==
    /\ lists = <<<<"lib">>>>
    /\ syspath = 1
    /\ sysprefix = "/usr"
    /\ venv_sys_path = 0
    /\ activation = NoActivation
    /\ activations = 0
NoSections == [default |-> {}, develop |-> {}]
Files(p, l) == [pipfile |-> p, lockfile |-> l]
CliIdle ==
    /\ options = [packages |-> {}, only |-> "none"]
    /\ disk = Files(NoSections, NoSections)
    /\ project = Files(NoSections, NoSections)
    /\ step = "off"
    /\ success = "none"
    /\ status = "none"
    /\ writes = <<>>
ApartIdle == JsonIdle /\ CandidateIdle /\ LookupsIdle /\ UtilsIdle /\ VenvIdle /\ CliIdle

NoExc == "none"
TierNames == {"cache", "remote", "pip"}
NoTiers == [t \in TierNames |-> NotRun]
NoPrev == [valid |-> FALSE, ireq |-> NoReq, outcome |-> RetNone]
\* The getter whose list the current call returned, "none" when none did.
Winner ==
    IF \E t \in TierNames : tiers[t].kind = "list"
    THEN CHOOSE t \in TierNames : tiers[t].kind = "list"
    ELSE "none"

CacheOp(op, r, v) == [op |-> op, ireq |-> r, val |-> v]

\* ----------------------------------------------------------- cache tier

\* The loop without the branch for a package that depends on itself.
RECURSIVE Broken_NoSelf(_, _, _)
Broken_NoSelf(cached, i, ireq_name) ==
    IF i > Len(cached) THEN FALSE
    ELSE IF ~CanParse(cached[i]) THEN TRUE
    ELSE LET dep_req == from_line(cached[i])
         IN IF contains_extra(dep_req.markers) THEN TRUE
            ELSE Broken_NoSelf(cached, i + 1, ireq_name)

\* The validation loop of _get_dependencies_from_cache, from line i on:
\* TRUE when the entry is broken. A line that does not parse raises inside
\* the try, which marks the entry broken.
RECURSIVE Broken(_, _, _)
Broken(cached, i, ireq_name) ==
    IF i > Len(cached) THEN FALSE
    ELSE IF ~CanParse(cached[i]) THEN TRUE
    ELSE LET dep_req == from_line(cached[i])
         IN IF contains_extra(dep_req.markers) THEN TRUE
            ELSE IF normalized_name(dep_req) = ireq_name THEN TRUE
            ELSE Broken(cached, i + 1, ireq_name)

\* The cache tier without the except of its validation loop: a line that
\* does not parse raises out of the getter.
RECURSIVE RaisesFirst(_, _, _)
RaisesFirst(cached, i, ireq_name) ==
    IF i > Len(cached) THEN FALSE
    ELSE IF ~CanParse(cached[i]) THEN TRUE
    ELSE IF contains_extra(from_line(cached[i]).markers) THEN FALSE
    ELSE IF normalized_name(from_line(cached[i])) = ireq_name THEN FALSE
    ELSE RaisesFirst(cached, i + 1, ireq_name)
FromCache_NoExcept(c, r) ==
    IF r.editable
    THEN [out |-> RetNone, cache |-> c, ops |-> <<>>]
    ELSE IF r.specifier # PinnedSpec
    THEN [out |-> Raised("TypeError"), cache |-> c,
          ops |-> <<CacheOp("get", r, <<>>)>>]
    ELSE LET k == <<canonicalize_name(r.name), V10, r.extras>>
         IN IF ~c[k].has
            THEN [out |-> RetNone, cache |-> c,
                  ops |-> <<CacheOp("get", r, <<>>)>>]
            ELSE IF RaisesFirst(c[k].val, 1, canonicalize_name(r.name))
            THEN [out |-> Raised("ParseError"), cache |-> c,
                  ops |-> <<CacheOp("get", r, c[k].val)>>]
            ELSE IF Broken(c[k].val, 1, canonicalize_name(r.name))
            THEN [out |-> RetNone, cache |-> [c EXCEPT ![k] = Absent],
                  ops |-> <<CacheOp("get", r, c[k].val), CacheOp("del", r, <<>>)>>]
            ELSE [out |-> RetList(c[k].val), cache |-> c,
                  ops |-> <<CacheOp("get", r, c[k].val)>>]

\* _get_dependencies_from_cache on cache content c: what it returns, the
\* cache afterwards and the cache operations it made.
FromCache(c, r) ==
    IF r.editable
    THEN [out |-> RetNone, cache |-> c, ops |-> <<>>]
    ELSE IF ~is_pinned_requirement(r)
    THEN [out |-> Raised("TypeError"), cache |-> c,
          ops |-> <<CacheOp("get", r, <<>>)>>]
    ELSE LET k == as_cache_key(r)
         IN IF ~c[k].has
            THEN [out |-> RetNone, cache |-> c,
                  ops |-> <<CacheOp("get", r, <<>>)>>]
            ELSE IF Broken(c[k].val, 1, canonicalize_name(r.name))
            THEN [out |-> RetNone, cache |-> [c EXCEPT ![k] = Absent],
                  ops |-> <<CacheOp("get", r, c[k].val), CacheOp("del", r, <<>>)>>]
            ELSE [out |-> RetList(c[k].val), cache |-> c,
                  ops |-> <<CacheOp("get", r, c[k].val)>>]

\* The wrapper _cached around a getter's result `out`: the result is stored
\* when it is a list and the requirement is pinned. The store itself may
\* fail (w = "fail_unset", "fail_set": the entry is or is not in place when
\* the exception leaves __setitem__), and then the wrapped getter raises.
WriteOutcomes == {"ok", "fail_unset", "fail_set"}
Writes(out, r) == out.kind = "list" /\ is_pinned_requirement(r)
WritesOf(W, out, r) == IF Writes(out, r) THEN W ELSE {"ok"}

\* The wrapper testing the specifier alone, not the editable flag.
Cached_Editable(out, r, c, w) ==
    IF out.kind = "list" /\ r.specifier = PinnedSpec
    THEN LET k == <<canonicalize_name(r.name), V10, r.extras>>
         IN [out |-> out, cache |-> [c EXCEPT ![k] = Entry(out.val)],
             ops |-> <<CacheOp("set", r, out.val)>>]
    ELSE [out |-> out, cache |-> c, ops |-> <<>>]

\* wrapped(ireq) of _cached once the getter gave `out`, the store ending as w.
Cached(out, r, c, w) ==
    IF Writes(out, r)
    THEN LET k == as_cache_key(r)
             written == [c EXCEPT ![k] = Entry(out.val)]
         IN IF w = "ok"
            THEN [out |-> out, cache |-> written,
                  ops |-> <<CacheOp("set", r, out.val)>>]
            ELSE [out |-> Raised("CacheWriteError"),
                  cache |-> IF w = "fail_set" THEN written ELSE c,
                  ops |-> <<CacheOp("set", r, out.val)>>]
    ELSE [out |-> out, cache |-> c, ops |-> <<>>]

\* ------------------------------------------------------------ JSON tier

\* A source URL is its text cut in pieces: a host part, the path "/simple"
\* (seven characters) and single slashes. <<>> is the empty string that
\* source.get("url", "") gives for a source without a URL.
Urls ==
    {<<"h1", "/simple">>, <<"h1", "/simple", "/">>, <<"h2", "/simple">>,
     <<"h2">>, <<>>}

RECURSIVE rstrip_slash(_)
rstrip_slash(url) ==
    IF Len(url) > 0 /\ url[Len(url)] = "/"
    THEN rstrip_slash(SubSeq(url, 1, Len(url) - 1))
    ELSE url

endswith_simple(url) == Len(url) > 0 /\ url[Len(url)] = "/simple"

\* url_prefixes without the rstrip("/").
RECURSIVE url_prefixes_NoStrip(_, _)
url_prefixes_NoStrip(srcs, i) ==
    IF i > Len(srcs) THEN <<>>
    ELSE IF endswith_simple(srcs[i])
    THEN <<SubSeq(srcs[i], 1, Len(srcs[i]) - 1)>> \o url_prefixes_NoStrip(srcs, i + 1)
    ELSE url_prefixes_NoStrip(srcs, i + 1)

\* url_prefixes of _get_dependencies_from_json, from source i on.
RECURSIVE url_prefixes(_, _)
url_prefixes(srcs, i) ==
    IF i > Len(srcs) THEN <<>>
    ELSE LET proc_url == rstrip_slash(srcs[i])
         IN IF endswith_simple(proc_url)
            THEN <<SubSeq(proc_url, 1, Len(proc_url) - 1)>>
                     \o url_prefixes(srcs, i + 1)
            ELSE url_prefixes(srcs, i + 1)

\* What one request for one candidate gives: "fail" stands for a request
\* that raises, a bad status, a body that is not JSON or has no "info";
\* otherwise the two keys of info, each missing, null or a list of lines.
Missing == [kind |-> "missing", val |-> <<>>]
Null == [kind |-> "null", val |-> <<>>]
Field(l) == [kind |-> "list", val |-> l]
Info(rd, rq) == [kind |-> "info", requires_dist |-> rd, requires |-> rq]
LegacyRequires == {<<>>, <<LnPlain>>, <<LnSec, LnPlain>>}
\* Longer requires_dist lists: a plain line and a line under an extra, in
\* both orders, and a plain line before one that does not parse.
LongerLists == {<<LnPlain, LnSec>>, <<LnSec, LnPlain>>, <<LnPlain, LnBad>>}

\* The responses of the chain: a failure; the requires_dist lists (or null)
\* beside an empty requires; no requires_dist beside a requires list or none;
\* a requires_dist list and no requires key.
Responses ==
    {[kind |-> "fail", requires_dist |-> Missing, requires |-> Missing]}
    \cup {Info(Field(l), Field(<<>>)) : l \in SeqsUpTo(ChainLines, MaxLen) \cup LongerLists}
    \cup {Info(Null, Field(<<>>)), Info(Missing, Missing),
          Info(Field(<<LnPlain>>), Missing)}
    \cup {Info(Missing, Field(l)) : l \in LegacyRequires}

\* The comprehension without its `if not contains_extra(...)`.
RECURSIVE JsonLines_KeepExtras(_, _, _)
JsonLines_KeepExtras(lines, i, acc) ==
    IF i > Len(lines) THEN RetList(acc)
    ELSE IF ~CanParse(lines[i]) THEN Raised("ParseError")
    ELSE JsonLines_KeepExtras(lines, i + 1, Append(acc, as_line(from_line(lines[i]))))

\* The list comprehension of lines 108-114 from line i on: the lines
\* without an extra marker, re-printed; a line that does not parse raises.
RECURSIVE JsonLines(_, _, _)
JsonLines(lines, i, acc) ==
    IF i > Len(lines) THEN RetList(acc)
    ELSE IF ~CanParse(lines[i]) THEN Raised("ParseError")
    ELSE LET dep_req == from_line(lines[i])
         IN IF ~contains_extra(dep_req.markers)
            THEN JsonLines(lines, i + 1, Append(acc, as_line(dep_req)))
            ELSE JsonLines(lines, i + 1, acc)

\* The try block of one candidate (lines 104-114). The default argument
\* info["requires"] is evaluated before info.get looks for requires_dist.
Chosen(resp) ==
    IF resp.requires_dist.kind = "missing" THEN resp.requires ELSE resp.requires_dist

TryCandidate(resp) ==
    IF resp.kind = "fail" THEN Raised("RequestError")
    ELSE IF resp.requires.kind = "missing" THEN Raised("KeyError")
    ELSE IF Chosen(resp).kind = "null" THEN Raised("TypeError")
    ELSE JsonLines(Chosen(resp).val, 1, <<>>)

\* ------------------------------------------------------------- pip tier

NoExtra == "-"

StrEntry(line) == [kind |-> "str", extra |-> NoExtra, requires |-> <<line>>]
\* The "requires" of a dict entry: none, one line, or one of three pairs.
Requires(L) ==
    {<<>>} \cup {<<l>> : l \in L}
    \cup {<<LnPlain, LnSec>>, <<LnSec, LnEnv>>, <<LnDotEnv, LnPlain>>}
DictEntries(L) ==
    [kind : {"dict"}, extra : Extras \cup {NoExtra}, requires : Requires(L)]
RunRequires(L) == SeqsUpTo({StrEntry(l) : l \in L} \cup DictEntries(L), MaxEntries)

\* The inner loop keeping the marker of a kept line as it is.
RECURSIVE ReadLines_NoStrip(_, _, _, _)
ReadLines_NoStrip(requires, j, extras, acc) ==
    IF j > Len(requires) THEN RetList(acc)
    ELSE IF ~CanParse(requires[j]) THEN Raised("ParseError")
    ELSE LET r == from_line(requires[j])
         IN IF HasMarkers(r)
            THEN LET contained == get_contained_extras(r.markers)
                 IN IF contained # {} /\ ~(\E e \in extras : e \in contained)
                    THEN ReadLines_NoStrip(requires, j + 1, extras, acc)
                    ELSE ReadLines_NoStrip(requires, j + 1, extras,
                                           Append(acc, as_line(r)))
            ELSE ReadLines_NoStrip(requires, j + 1, extras, Append(acc, requires[j]))

\* The inner loop with all(...) in place of any(...).
RECURSIVE ReadLines_All(_, _, _, _)
ReadLines_All(requires, j, extras, acc) ==
    IF j > Len(requires) THEN RetList(acc)
    ELSE IF ~CanParse(requires[j]) THEN Raised("ParseError")
    ELSE LET r == from_line(requires[j])
         IN IF HasMarkers(r)
            THEN LET contained == get_contained_extras(r.markers)
                 IN IF contained # {} /\ ~(\A e \in extras : e \in contained)
                    THEN ReadLines_All(requires, j + 1, extras, acc)
                    ELSE LET marker == get_without_extra(r.markers)
                             stripped == [r EXCEPT !.markers = marker]
                         IN ReadLines_All(requires, j + 1, extras,
                                          Append(acc, as_line(stripped)))
            ELSE ReadLines_All(requires, j + 1, extras, Append(acc, requires[j]))

\* The inner loop of _read_requirements (lines 144-153) from line j on.
RECURSIVE ReadLines(_, _, _, _)
ReadLines(requires, j, extras, acc) ==
    IF j > Len(requires) THEN RetList(acc)
    ELSE IF ~CanParse(requires[j]) THEN Raised("ParseError")
    ELSE LET r == from_line(requires[j])
         IN IF HasMarkers(r)
            THEN LET contained == get_contained_extras(r.markers)
                 IN IF contained # {} /\ ~(\E e \in extras : e \in contained)
                    THEN ReadLines(requires, j + 1, extras, acc)
                    ELSE LET marker == get_without_extra(r.markers)
                             stripped == [r EXCEPT !.markers = marker]
                         IN ReadLines(requires, j + 1, extras,
                                      Append(acc, as_line(stripped)))
            ELSE ReadLines(requires, j + 1, extras, Append(acc, requires[j]))

\* The outer loop of _read_requirements (lines 136-153) from entry i on.
RECURSIVE ReadEntries(_, _, _, _)
ReadEntries(run_requires, i, extras, acc) ==
    IF i > Len(run_requires) THEN RetList(acc)
    ELSE LET entry == run_requires[i]
         IN IF entry.extra # NoExtra /\ entry.extra \notin extras
            THEN ReadEntries(run_requires, i + 1, extras, acc)
            ELSE LET inner == ReadLines(entry.requires, 1, extras, acc)
                 IN IF inner.kind = "raise" THEN inner
                    ELSE ReadEntries(run_requires, i + 1, extras, inner.val)

read_requirements(run_requires, extras) == ReadEntries(run_requires, 1, extras, <<>>)

\* What build_wheel gives: it raises, it yields no usable path, or it
\* yields a wheel whose metadata has the given run_requires.
DictEntry(x, l) == [kind |-> "dict", extra |-> x, requires |-> l]
\* The wheels built in the chain: no dependency; one plain dependency; a
\* dependency on the package itself; a plain dependency and one under the
\* extra "security"; an untagged entry whose line carries the extra marker;
\* a line that does not parse, untagged and under the extra; the package
\* itself under the extra.
ChainWheels ==
    {<<>>,
     <<StrEntry(LnPlain)>>,
     <<StrEntry(LnSelf)>>,
     <<StrEntry(LnPlain), DictEntry("security", <<LnSec>>)>>,
     <<DictEntry(NoExtra, <<LnSec>>), StrEntry(LnPlain)>>,
     <<StrEntry(LnBad)>>,
     <<DictEntry("security", <<LnBad>>)>>,
     <<DictEntry("security", <<LnSelf>>)>>}

BuildOutcomes ==
    {[kind |-> "raise", run_requires |-> <<>>],
     [kind |-> "nowheel", run_requires |-> <<>>]}
    \cup [kind : {"wheel"}, run_requires : ChainWheels]

\* _get_dependencies_from_pip on build outcome b.
FromPip(r, b) ==
    IF b.kind = "raise" THEN Raised("BuildError")
    ELSE IF b.kind = "nowheel" THEN Raised("RuntimeError:build")
    ELSE read_requirements(b.run_requires, r.extras)

\* ---------------------------------------------------------------- chain

\* Line 193: the winning list parsed into requirements.
AllParse(deps) == \A i \in 1..Len(deps) : CanParse(deps[i])
ParseAll(deps) == [i \in 1..Len(deps) |-> from_line(deps[i])]

\* The loop body with `if deps:` in place of `if deps is not None:`.
Chain_Truthy(tier, out) ==
    LET exc == IF out.kind = "raise" THEN out.exc ELSE last_exc
    IN /\ tiers' = [tiers EXCEPT ![tier] = out]
       /\ last_exc' = exc
       /\ IF out.kind = "list" /\ out.val # <<>>
          THEN IF AllParse(out.val)
               THEN pc' = "returned" /\ outcome' = RetList(ParseAll(out.val))
               ELSE pc' = "raised" /\ outcome' = Raised("ParseError")
          ELSE IF tier = "cache" THEN pc' = "remote" /\ outcome' = outcome
          ELSE IF tier = "remote" THEN pc' = "pip" /\ outcome' = outcome
          ELSE /\ pc' = "raised"
               /\ outcome' = Raised(IF exc # NoExc THEN exc ELSE "RuntimeError:nodeps")

\* The loop body keeping the first exception instead of the last.
Chain_FirstExc(tier, out) ==
    LET exc == IF last_exc # NoExc THEN last_exc
               ELSE IF out.kind = "raise" THEN out.exc ELSE last_exc
    IN /\ tiers' = [tiers EXCEPT ![tier] = out]
       /\ last_exc' = exc
       /\ IF out.kind = "list"
          THEN IF AllParse(out.val)
               THEN pc' = "returned" /\ outcome' = RetList(ParseAll(out.val))
               ELSE pc' = "raised" /\ outcome' = Raised("ParseError")
          ELSE IF tier = "cache" THEN pc' = "remote" /\ outcome' = outcome
          ELSE IF tier = "remote" THEN pc' = "pip" /\ outcome' = outcome
          ELSE /\ pc' = "raised"
               /\ outcome' = Raised(IF exc # NoExc THEN exc ELSE "RuntimeError:nodeps")

\* The loop body without its try: an exception leaves get_dependencies.
Chain_NoCatch(tier, out) ==
    /\ tiers' = [tiers EXCEPT ![tier] = out]
    /\ last_exc' = last_exc
    /\ IF out.kind = "raise"
       THEN pc' = "raised" /\ outcome' = out
       ELSE IF out.kind = "list"
       THEN pc' = "returned" /\ outcome' = RetList(ParseAll(out.val))
       ELSE IF tier = "cache" THEN pc' = "remote" /\ outcome' = outcome
       ELSE IF tier = "remote" THEN pc' = "pip" /\ outcome' = outcome
       ELSE pc' = "raised" /\ outcome' = Raised("RuntimeError:nodeps")

\* The body of get_dependencies' loop for getter `tier` that gave `out`,
\* and, after the last getter, the lines that follow the loop.
Chain(tier, out) ==
    LET exc == IF out.kind = "raise" THEN out.exc ELSE last_exc
    IN /\ tiers' = [tiers EXCEPT ![tier] = out]
       /\ last_exc' = exc
       /\ IF out.kind = "list"
          THEN IF AllParse(out.val)
               THEN pc' = "returned" /\ outcome' = RetList(ParseAll(out.val))
               ELSE pc' = "raised" /\ outcome' = Raised("ParseError")
          ELSE IF tier = "cache" THEN pc' = "remote" /\ outcome' = outcome
          ELSE IF tier = "remote" THEN pc' = "pip" /\ outcome' = outcome
          ELSE /\ pc' = "raised"
               /\ outcome' = Raised(IF exc # NoExc THEN exc ELSE "RuntimeError:nodeps")

Init ==
    /\ cache \in [Keys -> {Absent} \cup {Entry(l) : l \in SeqsUpTo(ChainLines, MaxCached)}]
    /\ pc = "idle"
    /\ ireq = NoReq
    /\ last_exc = NoExc
    /\ todo = <<>>
    /\ tiers = NoTiers
    /\ outcome = RetNone
    /\ order = <<>>
    /\ cacheOps = <<>>
    /\ requests = <<>>
    /\ builds = 0
    /\ served = <<>>
    /\ prev = NoPrev
    /\ wheel = <<>>
    /\ reqs = NotRun
    /\ ApartIdle

\* get_dependencies is entered (lines 179-185).
Call ==
    /\ pc \in {"idle", "returned", "raised"}
    /\ \E r \in IReqs : ireq' = r
    /\ prev' = IF pc = "returned" /\ Winner = "pip" /\ is_pinned(ireq)
               THEN [valid |-> TRUE, ireq |-> ireq, outcome |-> outcome]
               ELSE NoPrev
    /\ pc' = "cache"
    /\ last_exc' = NoExc
    /\ todo' = <<>>
    /\ tiers' = NoTiers
    /\ outcome' = RetNone
    /\ order' = <<>>
    /\ cacheOps' = <<>>
    /\ requests' = <<>>
    /\ builds' = 0
    /\ served' = <<>>
    /\ UNCHANGED <<cache, wheel, reqs, apart>>

\* The first getter, _get_dependencies_from_cache.
CacheTier ==
    /\ pc = "cache"
    /\ LET got == FromCache(cache, ireq)
       IN /\ cache' = got.cache
          /\ cacheOps' = cacheOps \o got.ops
          /\ Chain("cache", got.out)
    /\ order' = Append(order, "cache")
    /\ UNCHANGED <<ireq, todo, requests, builds, served, prev, wheel, reqs, apart>>

\* The JSON tier without its `if ireq.extras: return`.
RemoteTierOf_NoExtrasCheck(S) ==
    /\ pc = "remote"
    /\ order' = Append(order, "remote")
    /\ IF ireq.editable
       THEN /\ Chain("remote", RetNone)
            /\ todo' = <<>>
       ELSE \E srcs \in S :
               LET prefixes == url_prefixes(srcs, 1)
               IN IF prefixes = <<>>
                  THEN /\ Chain("remote", RetNone)
                       /\ todo' = <<>>
                  ELSE /\ todo' = prefixes
                       /\ pc' = "request"
                       /\ UNCHANGED <<tiers, last_exc, outcome>>
    /\ UNCHANGED <<cache, ireq, cacheOps, requests, builds, served, prev, wheel, reqs, apart>>

\* The second getter, _cached(_get_dependencies_from_json), up to its loop
\* over the candidates (lines 77-97), its `sources` being one of S.
RemoteTierOf(S) ==
    /\ pc = "remote"
    /\ order' = Append(order, "remote")
    /\ IF ireq.editable \/ ireq.extras # {}
       THEN /\ Chain("remote", RetNone)
            /\ todo' = <<>>
       ELSE \E srcs \in S :
               LET prefixes == url_prefixes(srcs, 1)
               IN IF prefixes = <<>>
                  THEN /\ Chain("remote", RetNone)
                       /\ todo' = <<>>
                  ELSE /\ todo' = prefixes
                       /\ pc' = "request"
                       /\ UNCHANGED <<tiers, last_exc, outcome>>
    /\ UNCHANGED <<cache, ireq, cacheOps, requests, builds, served, prev, wheel, reqs, apart>>

\* The second getter in the chain, whatever the sources; and on its own,
\* with the sources it is given.
RemoteTier == RemoteTierOf(SeqsUpTo(Urls, MaxSources))
JsonTier == RemoteTierOf({sources})

\* The loop over the candidates trying a failed candidate again.
RemoteRequestW_Retry(W) ==
    /\ pc = "request"
    /\ \E resp \in Responses :
          LET got == TryCandidate(resp)
          IN /\ requests' = Append(requests, [prefix |-> Head(todo),
                                               ok |-> got.kind = "list"])
             /\ IF got.kind = "list"
                THEN /\ cache' = Cached(got, ireq, cache, "ok").cache
                     /\ cacheOps' = cacheOps \o Cached(got, ireq, cache, "ok").ops
                     /\ todo' = <<>>
                     /\ served' = Chosen(resp).val
                     /\ Chain("remote", got)
                ELSE UNCHANGED <<todo, cache, cacheOps, served, pc, tiers, last_exc, outcome>>
    /\ UNCHANGED <<ireq, order, builds, prev, wheel, reqs, apart>>

\* One turn of the loop over the candidates (lines 98-117), and when the
\* loop ends, the return through _cached.
RemoteRequestW(W) ==
    /\ pc = "request"
    /\ \E resp \in Responses :
          LET got == TryCandidate(resp)
          IN /\ requests' = Append(requests, [prefix |-> Head(todo),
                                               ok |-> got.kind = "list"])
             /\ IF got.kind = "list"
                THEN \E w \in WritesOf(W, got, ireq) :
                        LET done == Cached(got, ireq, cache, w)
                        IN /\ cache' = done.cache
                           /\ cacheOps' = cacheOps \o done.ops
                           /\ todo' = <<>>
                           /\ served' = Chosen(resp).val
                           /\ Chain("remote", done.out)
                ELSE IF Len(todo) > 1
                THEN /\ todo' = Tail(todo)
                     /\ UNCHANGED <<cache, cacheOps, served, pc, tiers, last_exc, outcome>>
                ELSE /\ todo' = <<>>
                     /\ Chain("remote", RetNone)
                     /\ UNCHANGED <<cache, cacheOps, served>>
    /\ UNCHANGED <<ireq, order, builds, prev, wheel, reqs, apart>>

\* The third getter, _cached(_get_dependencies_from_pip), and the lines
\* after the loop.
PipTierW(W) ==
    /\ pc = "pip"
    /\ order' = Append(order, "pip")
    /\ builds' = builds + 1
    /\ \E b \in BuildOutcomes :
          \E w \in WritesOf(W, FromPip(ireq, b), ireq) :
             LET done == Cached(FromPip(ireq, b), ireq, cache, w)
             IN /\ cache' = done.cache
                /\ cacheOps' = cacheOps \o done.ops
                /\ Chain("pip", done.out)
    /\ UNCHANGED <<ireq, todo, requests, served, prev, wheel, reqs, apart>>

\* The chain over a cache whose stores succeed.
RemoteRequest == RemoteRequestW({"ok"})
PipTier == PipTierW({"ok"})

Next == Call \/ CacheTier \/ RemoteTier \/ RemoteRequest \/ PipTier

Spec == Init /\ [][Next]_vars

\* ------------------------------------------- _read_requirements alone

\* The lines of the wheels read on their own: without a marker, with an
\* extra marker, with an extra and another clause, with another clause
\* only, and one that does not parse.
WheelLines == {LnPlain, LnSec, LnDotEnv, LnEnv, LnBad}

InitRead ==
    /\ cache = [k \in Keys |-> Absent]
    /\ pc = "idle"
    /\ ireq \in [name : {"A"}, specifier : {PinnedSpec}, editable : {FALSE},
                  extras : SUBSET Extras]
    /\ last_exc = NoExc
    /\ todo = <<>>
    /\ tiers = NoTiers
    /\ outcome = RetNone
    /\ order = <<>>
    /\ cacheOps = <<>>
    /\ requests = <<>>
    /\ builds = 0
    /\ served = <<>>
    /\ prev = NoPrev
    /\ wheel \in RunRequires(WheelLines)
    /\ reqs = NotRun
    /\ ApartIdle

\* _read_requirements(wheel, extras) is called.
ReadRequirements ==
    /\ reqs = NotRun
    /\ reqs' = read_requirements(wheel, ireq.extras)
    /\ UNCHANGED <<cache, pc, ireq, last_exc, todo, tiers, outcome, order,
                   cacheOps, requests, builds, served, prev, wheel, apart>>

NextRead == ReadRequirements

SpecRead == InitRead /\ [][NextRead]_vars

\* ------------------------------------------------------------- claims

Done == pc \in {"returned", "raised"}
Ran(t) == tiers[t].kind # "notrun"

\* A cache entry is broken: some line does not parse, carries an extra
\* marker, or names the package of the requirement.
BrokenEntry(lines, r) ==
    \E i \in 1..Len(lines) :
        \/ lines[i].form = "bad"
        \/ lines[i].extras # {}
        \/ canonicalize_name(lines[i].name) = canonicalize_name(r.name)

\* The cache tier of the current call found an entry for its requirement.
FoundEntry ==
    /\ Ran("cache")
    /\ is_pinned(ireq)
    /\ cacheOps # <<>>
    /\ cacheOps[1].op = "get"
    /\ (Len(cacheOps[1].val) > 0 \/ tiers["cache"].kind = "list")

\* C1: when the cache tier finds a broken entry for a pinned, non-editable
\* requirement, it deletes the entry and returns None, the chain goes on to
\* the JSON tier, and the call does not return the cache tier's list.
C1_BrokenEntryDropped ==
    (FoundEntry /\ BrokenEntry(cacheOps[1].val, ireq)) =>
        /\ tiers["cache"] = RetNone
        /\ Len(cacheOps) >= 2
        /\ cacheOps[2] = CacheOp("del", ireq, <<>>)
        /\ (pc = "remote" => ~cache[as_cache_key(ireq)].has)
        /\ (pc = "remote" \/ (Len(order) >= 2 /\ order[2] = "remote"))
        /\ Winner # "cache"

\* C1 witness: a call for a pinned requirement whose entry named the
\* package itself has gone past the cache tier and returned.
C1_Witness ==
    /\ pc = "returned"
    /\ FoundEntry
    /\ cacheOps[1].val = <<LnSelf>>
    /\ Len(cacheOps) >= 2
    /\ cacheOps[2].op = "del"

Before(t) ==
    IF t = "cache" THEN {} ELSE IF t = "remote" THEN {"cache"}
    ELSE {"cache", "remote"}

\* C2: the getters run in the order cache, JSON, pip, and once a getter has
\* returned a list (an empty one included) the call is over and no later
\* getter, request or build has happened.
C2_FirstListWins ==
    /\ order \in {<<>>, <<"cache">>, <<"cache", "remote">>,
                  <<"cache", "remote", "pip">>}
    /\ \A t \in TierNames :
          tiers[t].kind = "list" =>
              /\ Done
              /\ order[Len(order)] = t
              /\ \A u \in TierNames \ (Before(t) \cup {t}) : ~Ran(u)
              /\ (t = "cache" => requests = <<>> /\ builds = 0)
              /\ (t = "remote" => builds = 0)

\* C2 witness: the cache tier returned a valid empty list and the call
\* returned it.
C2_Witness ==
    /\ pc = "returned"
    /\ tiers["cache"] = RetList(<<>>)
    /\ outcome = RetList(<<>>)
    /\ order = <<"cache">>

\* The last getter, in chain order, that raised.
LastRaiser ==
    IF tiers["pip"].kind = "raise" THEN "pip"
    ELSE IF tiers["remote"].kind = "raise" THEN "remote"
    ELSE "cache"

\* C3: when no getter returned a list the call raises: the exception of the
\* last getter that raised, or, when none raised, the RuntimeError of line
\* 196.
C3_LastErrorRaised ==
    (Ran("pip") /\ tiers["pip"].kind # "list") =>
        /\ pc = "raised"
        /\ IF \E t \in TierNames : tiers[t].kind = "raise"
           THEN outcome = Raised(tiers[LastRaiser].exc)
           ELSE outcome = Raised("RuntimeError:nodeps")

\* C3 witness: the cache tier raised one exception, the wheel build another,
\* and the call raised.
C3_Witness ==
    /\ pc = "raised"
    /\ tiers["cache"] = Raised("TypeError")
    /\ tiers["pip"] = Raised("BuildError")

\* C4 as stated: the call that follows a call the wheel build answered, for
\* the same pinned requirement, is answered by the cache tier with the same
\* list and without a build.
C4_NoRebuild ==
    (Done /\ prev.valid /\ prev.ireq = ireq) =>
        /\ Winner = "cache"
        /\ builds = 0
        /\ outcome = prev.outcome

\* C5 as stated: for a requirement that is editable or not pinned the cache
\* tier returns None and the call makes no cache operation at all.
C5_NoCacheAccess ==
    (Ran("cache") /\ (ireq.editable \/ ~is_pinned(ireq))) =>
        /\ tiers["cache"] = RetNone
        /\ cacheOps = <<>>

Wrapped == {"remote", "pip"}

\* C6: an entry is stored only for a pinned, non-editable requirement, under
\* its own key, in the step in which a wrapped getter returns a list, and
\* the entry is that list; every store the call logs is of that kind.
C6_StoresOnlyPinnedLists ==
    /\ [](\A i \in 1..Len(cacheOps) :
            cacheOps[i].op = "set" =>
                /\ cacheOps[i].ireq = ireq
                /\ is_pinned(ireq) /\ ~ireq.editable
                /\ \E t \in Wrapped : tiers[t] = RetList(cacheOps[i].val))
    /\ [][\A k \in Keys :
            (cache'[k] # cache[k] /\ cache'[k].has) =>
                /\ is_pinned(ireq') /\ ~ireq'.editable
                /\ k = <<canonicalize_name(ireq'.name), V10, ireq'.extras>>
                /\ \E t \in Wrapped :
                      tiers[t] = NotRun /\ tiers'[t] = RetList(cache'[k].val)]_vars

\* C6 witness: the wheel build returned a non-empty list for a pinned
\* requirement and the cache holds it.
C6_Witness ==
    /\ pc = "returned"
    /\ Winner = "pip"
    /\ is_pinned(ireq)
    /\ tiers["pip"].val # <<>>
    /\ cacheOps[Len(cacheOps)] = CacheOp("set", ireq, tiers["pip"].val)
    /\ cache[as_cache_key(ireq)] = Entry(tiers["pip"].val)

\* The lines of all entries of a run_requires, in order, each with the tag
\* of its entry.
RECURSIVE Tagged(_, _)
Tagged(run_requires, i) ==
    IF i > Len(run_requires) THEN <<>>
    ELSE [j \in 1..Len(run_requires[i].requires) |->
             [tag |-> run_requires[i].extra, line |-> run_requires[i].requires[j]]]
         \o Tagged(run_requires, i + 1)

KeptFor(p) ==
    /\ (p.tag = NoExtra \/ p.tag \in ireq.extras)
    /\ (p.line.extras = {} \/ p.line.extras \cap ireq.extras # {})

\* C7: the list _read_requirements gives holds, in order, exactly the lines
\* whose entry is untagged or tagged with a requested extra and whose marker
\* gates on no extra or on a requested one, each without any extra
\* condition and with the rest of its marker kept.
C7_ExtrasScoping ==
    reqs.kind = "list" =>
        LET kept == SelectSeq(Tagged(wheel, 1), KeptFor)
        IN /\ Len(reqs.val) = Len(kept)
           /\ \A i \in 1..Len(kept) :
                 /\ reqs.val[i].form # "bad"
                 /\ reqs.val[i].name = kept[i].line.name
                 /\ reqs.val[i].extras = {}
                 /\ reqs.val[i].env = kept[i].line.env

\* C7 witness: the entry tagged "security" with the line gated on
\* "security", read for a requirement with that extra, gives the line
\* without its marker.
C7_Witness ==
    /\ wheel = <<DictEntry("security", <<LnSec>>)>>
    /\ ireq.extras = {"security"}
    /\ reqs = RetList(<<Ln("d", {}, FALSE, "canon")>>)

NoExtraLine(l) == l.extras = {}
Canon(lines) == [i \in 1..Len(lines) |-> [lines[i] EXCEPT !.form = "canon"]]

\* C9: when the JSON tier answers a call for a pinned requirement without
\* extras, the list returned is the response without its lines that carry
\* an extra marker, in order, and the cache entry of the requirement is
\* that list.
C9_RemoteFiltered ==
    (pc = "returned" /\ Winner = "remote" /\ is_pinned(ireq) /\ ireq.extras = {}) =>
        LET rest == SelectSeq(served, NoExtraLine)
        IN /\ outcome = RetList(ParseAll(rest))
           /\ tiers["remote"] = RetList(Canon(rest))
           /\ cache[as_cache_key(ireq)] = Entry(Canon(rest))

\* C9 witness: the cache had no entry, the response was a plain line and a
\* line with an extra marker, and the call returned the plain line alone.
C9_Witness ==
    /\ pc = "returned"
    /\ Winner = "remote"
    /\ is_pinned(ireq) /\ ireq.extras = {}
    /\ cacheOps[1] = CacheOp("get", ireq, <<>>)
    /\ served = <<LnPlain, LnSec>>
    /\ cache[as_cache_key(ireq)] = Entry(<<LnPlain>>)

HasSet == \E i \in 1..Len(cacheOps) : cacheOps[i].op = "set"

\* C10: for an editable requirement or one with extras the JSON tier returns
\* None without a request and without a store; a call for a requirement with
\* extras that the cache tier did not answer is answered, or failed, by the
\* wheel build.
C10_RemoteSkipsExtras ==
    /\ (ireq.editable \/ ireq.extras # {}) =>
          /\ pc # "request"
          /\ requests = <<>>
          /\ (Ran("remote") => tiers["remote"] = RetNone)
          /\ (~Ran("pip") => ~HasSet)
    /\ (Done /\ ireq.extras # {} /\ tiers["cache"].kind # "list") =>
          /\ Ran("pip")
          /\ (pc = "returned" => Winner = "pip")
          /\ (pc = "raised" => outcome = Raised(tiers["pip"].exc))

\* C10 witness: a call for a pinned requirement with an extra missed the
\* cache and was answered by the wheel build.
C10_Witness ==
    /\ pc = "returned"
    /\ ireq.extras = {"security"}
    /\ tiers["cache"] = RetNone
    /\ tiers["remote"] = RetNone
    /\ Winner = "pip"

\* ----------------------------------------------- the JSON tier alone

\* The state when the second getter is called: the first one has run on a
\* cache without entries, and the sources are any list of URLs.
InitJson ==
    /\ cache = [k \in Keys |-> Absent]
    /\ ireq \in IReqs
    /\ sources \in SeqsUpTo(Urls, MaxSources)
    /\ pc = "remote"
    /\ tiers = [NoTiers EXCEPT !["cache"] = FromCache(cache, ireq).out]
    /\ last_exc = IF tiers["cache"].kind = "raise" THEN tiers["cache"].exc ELSE NoExc
    /\ cacheOps = FromCache(cache, ireq).ops
    /\ order = <<"cache">>
    /\ todo = <<>>
    /\ outcome = RetNone
    /\ requests = <<>>
    /\ builds = 0
    /\ served = <<>>
    /\ prev = NoPrev
    /\ wheel = <<>>
    /\ reqs = NotRun
    /\ CandidateIdle
    /\ LookupsIdle
    /\ UtilsIdle
    /\ VenvIdle
    /\ CliIdle

NextJson == JsonTier \/ RemoteRequest

SpecJson == InitJson /\ [][NextJson]_vars

\* A URL without its trailing slashes, and whether what is left ends in
\* "/simple"; the candidate prefixes of the sources, in source order.
Trimmed(url) ==
    LET kept == {n \in 0..Len(url) : n = 0 \/ url[n] # "/"}
        last == CHOOSE n \in kept : \A m \in kept : m <= n
    IN SubSeq(url, 1, last)
IsSimple(url) == Trimmed(url) # <<>> /\ Trimmed(url)[Len(Trimmed(url))] = "/simple"
Candidates ==
    LET simple == SelectSeq(sources, IsSimple)
    IN [i \in 1..Len(simple) |-> SubSeq(Trimmed(simple[i]), 1, Len(Trimmed(simple[i])) - 1)]

\* C11: the JSON tier requests the candidate prefixes of the sources whose
\* trimmed URL ends in "/simple", in source order; every request but the
\* last one failed; the tier never raises; it gives a list exactly when the
\* last request succeeded, and None when every candidate failed or there
\* was none.
C11_CandidatesInOrder ==
    /\ Len(requests) <= Len(Candidates)
    /\ \A i \in 1..Len(requests) :
          /\ requests[i].prefix = Candidates[i]
          /\ (i < Len(requests) => ~requests[i].ok)
    /\ (pc = "request" =>
          /\ [i \in 1..Len(requests) |-> requests[i].prefix] \o todo = Candidates
          /\ todo # <<>>
          /\ (requests # <<>> => ~requests[Len(requests)].ok))
    /\ (Ran("remote") =>
          /\ tiers["remote"].kind \in {"none", "list"}
          /\ (tiers["remote"].kind = "list" <=>
                (requests # <<>> /\ requests[Len(requests)].ok))
          /\ (tiers["remote"].kind = "none" /\ ~ireq.editable /\ ireq.extras = {} =>
                Len(requests) = Len(Candidates)))

\* C11 witness: of two sources, the first with a trailing slash, the
\* candidate of the first failed and the candidate of the second gave the
\* list.
C11_Witness ==
    /\ sources = <<<<"h1", "/simple", "/">>, <<"h2", "/simple">>>>
    /\ requests = <<[prefix |-> <<"h1">>, ok |-> FALSE],
                    [prefix |-> <<"h2">>, ok |-> TRUE]>>
    /\ tiers["remote"].kind = "list"

\* ------------------------------------- the chain over a failing cache

\* The wrapped getters when a store into the cache may raise.
RemoteRequestFaulty == RemoteRequestW(WriteOutcomes)
PipTierFaulty == PipTierW(WriteOutcomes)

NextFaulty == Call \/ CacheTier \/ RemoteTier \/ RemoteRequestFaulty \/ PipTierFaulty

\* The cache at the start: per key no entry, a valid one or a broken one.
InitFaulty ==
    /\ Init
    /\ \A k \in Keys : cache[k] \in {Absent, Entry(<<LnPlain>>), Entry(<<LnSelf>>)}

SpecFaulty == InitFaulty /\ [][NextFaulty]_vars

\* C12: the error a call raises is the one its last getter, the wheel
\* build, raised; what the cache tier or the JSON tier raised, a failed
\* store of the JSON tier's list included, is not what the call raises
\* unless the wheel build raised the same.
C12_OnlyLastTierFails ==
    pc = "raised" =>
        /\ tiers["pip"].kind = "raise"
        /\ outcome = tiers["pip"]

\* C12 witness: the store of the JSON tier's list failed, then the wheel
\* build failed, and the call raised the build's error.
C12_Witness ==
    /\ pc = "raised"
    /\ tiers["remote"] = Raised("CacheWriteError")
    /\ tiers["pip"] = Raised("BuildError")
    /\ outcome = Raised("BuildError")

\* The validation of the entry the cache tier read met a line that does
\* not parse before any other broken line.
CacheParseFailed ==
    /\ Ran("cache")
    /\ cacheOps # <<>>
    /\ cacheOps[1].op = "get"
    /\ \E i \in 1..Len(cacheOps[1].val) :
          /\ cacheOps[1].val[i].form = "bad"
          /\ ~BrokenEntry(SubSeq(cacheOps[1].val, 1, i - 1), ireq)

\* C13 as stated: once a line failed to parse in a call, the call fails
\* with ParseError and goes on to no other tier.
C13_ParseErrorFatal ==
    CacheParseFailed =>
        /\ pc = "raised"
        /\ outcome = Raised("ParseError")
        /\ ~Ran("remote")

\* C13, amended: a line that does not parse while a cache entry is
\* validated makes the cache tier report a miss, not raise; the JSON tier
\* never raises ParseError; a ParseError of the wheel build's metadata
\* reading is the error the call raises, and a ParseError the call raises
\* is always that one.
C13_ParseErrorFromBuildOnly ==
    /\ (CacheParseFailed => tiers["cache"] = RetNone /\ pc # "cache")
    /\ (Ran("remote") => tiers["remote"] # Raised("ParseError"))
    /\ (tiers["pip"] = Raised("ParseError") =>
          pc = "raised" /\ outcome = Raised("ParseError"))
    /\ (outcome = Raised("ParseError") => tiers["pip"] = Raised("ParseError"))

\* C13 witness: the cache entry held a line that does not parse, the call
\* went on, and the wheel's metadata held one too: the call raised
\* ParseError.
C13_Witness ==
    /\ CacheParseFailed
    /\ Ran("remote")
    /\ tiers["pip"] = Raised("ParseError")
    /\ pc = "raised"
    /\ outcome = Raised("ParseError")

\* ------------------------------------------------------- termination

\* A getter that has been called returns or raises, and so does a request.
FairSpec ==
    /\ SpecFaulty
    /\ WF_vars(CacheTier)
    /\ WF_vars(RemoteTier)
    /\ WF_vars(RemoteRequestFaulty)
    /\ WF_vars(PipTierFaulty)

NoRepeat(seq) == \A i, j \in 1..Len(seq) : i # j => seq[i] # seq[j]

\* C14 as stated: no getter is called twice, the wheel is built at most
\* once, and no prefix is requested twice in a call.
C14_PrefixOnce ==
    /\ NoRepeat(order)
    /\ builds <= 1
    /\ NoRepeat([i \in 1..Len(requests) |-> requests[i].prefix])

\* C14, amended: every call returns or raises; in a call no getter is
\* called twice and the wheel is built at most once; every request is for
\* the first candidate left, which is then no longer left, so that each
\* entry of the candidate list is requested at most once.
C14_Terminates ==
    /\ [](NoRepeat(order) /\ builds <= 1 /\ builds = Len(SelectSeq(order, LAMBDA t : t = "pip")))
    /\ [][/\ (pc = "request" =>
                /\ Len(requests') = Len(requests) + 1
                /\ requests'[Len(requests')].prefix = Head(todo)
                /\ todo' \in {Tail(todo), <<>>})
          /\ (pc # "request" => requests' \in {requests, <<>>})]_vars
    /\ (pc = "cache" ~> Done)

\* C14 witness: two sources gave the same prefix, both requests failed,
\* and the call ended with the one wheel build.
C14_Witness ==
    /\ Done
    /\ order = <<"cache", "remote", "pip">>
    /\ builds = 1
    /\ Len(requests) = 2
    /\ requests[1].prefix = requests[2].prefix

\* ------------------------------------------- one candidate on its own

\* Every response: a failure, or an info whose requires_dist and requires
\* are each missing, null or a list of lines.
Fields == {Missing, Null} \cup {Field(l) : l \in SeqsUpTo(ChainLines, MaxLen) \cup LongerLists}
AllResponses ==
    {[kind |-> "fail", requires_dist |-> Missing, requires |-> Missing]}
    \cup [kind : {"info"}, requires_dist : Fields, requires : Fields]

InitCandidate ==
    /\ Init
    /\ \A k \in Keys : cache[k] = Absent

\* session.get(url) answers.
Respond ==
    /\ response = [kind |-> "none"]
    /\ response' \in AllResponses
    /\ UNCHANGED <<cache, pc, ireq, last_exc, todo, tiers, outcome, order,
                   cacheOps, requests, builds, served, prev, wheel, reqs,
                   sources, dependencies, lookups, arg, version, pinned, venv, cli>>

\* The rest of the try block of lines 104-114 for that response.
Try ==
    /\ response # [kind |-> "none"]
    /\ dependencies = NotRun
    /\ dependencies' = TryCandidate(response)
    /\ UNCHANGED <<cache, pc, ireq, last_exc, todo, tiers, outcome, order,
                   cacheOps, requests, builds, served, prev, wheel, reqs,
                   sources, response, lookups, arg, version, pinned, venv, cli>>

NextCandidate == Respond \/ Try

SpecCandidate == InitCandidate /\ [][NextCandidate]_vars

\* C15 as stated: a response whose info has a requires_dist list (of lines
\* that parse) makes the candidate succeed with the lines of requires_dist
\* that carry no extra, whether or not info has a requires key.
C15_RequiresDistFirst ==
    (dependencies # NotRun /\ response.kind = "info" /\ response.requires_dist.kind = "list"
        /\ AllParse(response.requires_dist.val)) =>
        dependencies = RetList(Canon(SelectSeq(response.requires_dist.val, NoExtraLine)))

\* -------------------------------------- lookups at the same time

\* Several get_dependencies calls for the same pinned requirement share
\* the cache. Each cache operation is one step; the sources are empty, so
\* that the JSON tier gives None and the wheel build follows a miss.
TheReq == [name |-> "A", specifier |-> PinnedSpec, editable |-> FALSE, extras |-> {}]
chain_but_utils_venv ==
    <<pc, ireq, last_exc, todo, tiers, outcome, order, cacheOps, requests,
      builds, served, prev, wheel, reqs, sources, response, dependencies>>
chain_but_utils == <<chain_but_utils_venv, venv, cli>>
chain == <<pc, ireq, last_exc, todo, tiers, outcome, order, cacheOps, requests,
           builds, served, prev, wheel, reqs, sources, response, dependencies,
           arg, version, pinned, venv, cli>>

InitLookups ==
    /\ cache \in [Keys -> {Absent} \cup {Entry(l) : l \in SeqsUpTo(ChainLines, MaxCached)}]
    /\ pc = "idle"
    /\ ireq = TheReq
    /\ last_exc = NoExc
    /\ todo = <<>>
    /\ tiers = NoTiers
    /\ outcome = RetNone
    /\ order = <<>>
    /\ cacheOps = <<>>
    /\ requests = <<>>
    /\ builds = 0
    /\ served = <<>>
    /\ prev = NoPrev
    /\ wheel = <<>>
    /\ reqs = NotRun
    /\ JsonIdle
    /\ CandidateIdle
    /\ UtilsIdle
    /\ VenvIdle
    /\ CliIdle
    /\ lookups = [p \in Lookups |-> LookupAt("read", <<>>, RetNone)]

\* Lines 40-59 of lookup p: the entry is read and validated.
LookupRead(p) ==
    /\ lookups[p].pc = "read"
    /\ LET entry == cache[as_cache_key(ireq)]
       IN lookups' = [lookups EXCEPT ![p] =
             IF ~entry.has THEN LookupAt("build", <<>>, RetNone)
             ELSE IF Broken(entry.val, 1, canonicalize_name(ireq.name))
             THEN LookupAt("delete", entry.val, RetNone)
             ELSE LookupAt("returned", entry.val, RetList(ParseAll(entry.val)))]
    /\ UNCHANGED <<cache, chain>>

\* Line 62 of lookup p: the entry of the key is deleted, whatever it is by
\* now; when there is none, del raises KeyError, which get_dependencies
\* catches. Either way the next getters follow.
LookupDelete(p) ==
    /\ lookups[p].pc = "delete"
    /\ cache' = [cache EXCEPT ![as_cache_key(ireq)] = Absent]
    /\ lookups' = [lookups EXCEPT ![p].pc = "build"]
    /\ UNCHANGED chain

\* The wrapped getters of lookup p: no candidate, then the wheel build and
\* the store of its list.
LookupBuild(p) ==
    /\ lookups[p].pc = "build"
    /\ \E b \in BuildOutcomes :
          LET done == Cached(FromPip(ireq, b), ireq, cache, "ok")
          IN /\ cache' = done.cache
             /\ lookups' = [lookups EXCEPT ![p] =
                   IF done.out.kind = "list"
                   THEN LookupAt("returned", @.cached, RetList(ParseAll(done.out.val)))
                   ELSE LookupAt("raised", @.cached, done.out)]
    /\ UNCHANGED chain

NextLookups == \E p \in Lookups : LookupRead(p) \/ LookupDelete(p) \/ LookupBuild(p)

SpecLookups == InitLookups /\ [][NextLookups]_vars

\* C16 as stated: the delete of a lookup removes only the entry that
\* lookup validated as broken; a valid entry that is in the cache when the
\* delete runs stays.
C16_ValidEntryKept ==
    [][\A p \in Lookups :
          (/\ lookups[p].pc = "delete"
           /\ lookups'[p].pc = "build"
           /\ cache[as_cache_key(ireq)].has
           /\ ~Broken(cache[as_cache_key(ireq)].val, 1, canonicalize_name(ireq.name)))
          => cache'[as_cache_key(ireq)] = cache[as_cache_key(ireq)]]_vars

NoExtraIn(lines) == \A j \in 1..Len(lines) : lines[j].extras = {}

\* C17: no list the wrapper stores holds a line with an extra marker, and
\* the entry a call reads right after a call for the same requirement that
\* the wheel build answered holds none.
C17_NoExtraStored ==
    /\ \A i \in 1..Len(cacheOps) :
          cacheOps[i].op = "set" => NoExtraIn(cacheOps[i].val)
    /\ (prev.valid /\ prev.ireq = ireq /\ cacheOps # <<>>) =>
          NoExtraIn(cacheOps[1].val)

\* C17 witness: for a requirement with the extra "security" the wheel
\* build read a line under that extra, and the list stored holds it
\* without its marker.
C17_Witness ==
    /\ pc = "returned"
    /\ Winner = "pip"
    /\ ireq.extras = {"security"}
    /\ cacheOps[Len(cacheOps)] =
          CacheOp("set", ireq, <<LnPlain, Ln("d", {}, FALSE, "canon")>>)

\* C18 as stated: a call that raised stored nothing. For a pinned
\* requirement the entry of its key was absent or broken when the call
\* began (a valid one ends the call with a list), so that when the call has
\* raised, the key has no entry.
C18_FailedCallStoresNothing ==
    (pc = "raised" /\ is_pinned(ireq)) => ~cache[as_cache_key(ireq)].has

\* ------------------------------------------------- utils on its own

V1Star == <<"1", "*">>
Specs == {"==", "===", ">=", "~="} \X {V10, V1Star}
SpecSets == {S \in SUBSET Specs : Cardinality(S) <= MaxSpecs}
\* What the functions are handed: an install requirement, an object
\* without a specifier, or an object with a specifier that is not an
\* install requirement (packaging's Requirement has no editable).
Objects ==
    [name : {"A"}, specifier : SpecSets, editable : BOOLEAN, extras : {{}}]
    \cup {[name |-> "A"]}
    \cup [name : {"A"}, specifier : SpecSets]

InitUtils ==
    /\ cache = [k \in Keys |-> Absent]
    /\ pc = "idle"
    /\ ireq = NoReq
    /\ last_exc = NoExc
    /\ todo = <<>>
    /\ tiers = NoTiers
    /\ outcome = RetNone
    /\ order = <<>>
    /\ cacheOps = <<>>
    /\ requests = <<>>
    /\ builds = 0
    /\ served = <<>>
    /\ prev = NoPrev
    /\ wheel = <<>>
    /\ reqs = NotRun
    /\ JsonIdle
    /\ CandidateIdle
    /\ LookupsIdle
    /\ VenvIdle
    /\ CliIdle
    /\ arg \in Objects
    /\ version = NotRun
    /\ pinned = NotRun

\* get_pinned_version(arg) is called.
CallGetPinnedVersion ==
    /\ version = NotRun
    /\ version' = get_pinned_version(arg)
    /\ UNCHANGED <<cache, chain_but_utils, lookups, arg, pinned>>

\* is_pinned(arg) is called.
CallIsPinned ==
    /\ pinned = NotRun
    /\ pinned' = is_pinned_call(arg)
    /\ UNCHANGED <<cache, chain_but_utils, lookups, arg, version>>

NextUtils == CallGetPinnedVersion \/ CallIsPinned

SpecUtils == InitUtils /\ [][NextUtils]_vars

\* An install requirement that is not editable and has one clause, with
\* an operator of ops and a version that does not end in ".*".
PinnedBy(x, ops) ==
    /\ "specifier" \in DOMAIN x
    /\ "editable" \in DOMAIN x
    /\ ~x.editable
    /\ Cardinality(x.specifier) = 1
    /\ \A s \in x.specifier : s[1] \in ops /\ s[2][Len(s[2])] # "*"
VersionOf(x) == (CHOOSE s \in x.specifier : TRUE)[2]

venv_dir == "venv"
passa_path == "passa"
\* What the environment's python prints as its sys.path.
VenvPath == <<"venv/lib">>
\* What running activate_this.py puts in front of sys.path, in place.
ScriptEffects == {<<>>, <<"venv/site">>}
\* How opening and running activate_this.py goes (lines 215-217).
ScriptOutcomes == {"unreadable", "raises", "runs"}

InitVenv ==
    /\ cache = [k \in Keys |-> Absent]
    /\ pc = "idle"
    /\ ireq = NoReq
    /\ last_exc = NoExc
    /\ todo = <<>>
    /\ tiers = NoTiers
    /\ outcome = RetNone
    /\ order = <<>>
    /\ cacheOps = <<>>
    /\ requests = <<>>
    /\ builds = 0
    /\ served = <<>>
    /\ prev = NoPrev
    /\ wheel = <<>>
    /\ reqs = NotRun
    /\ JsonIdle
    /\ CandidateIdle
    /\ LookupsIdle
    /\ UtilsIdle
    /\ CliIdle
    /\ lists \in {<<l>> : l \in {<<"lib">>, <<"lib", "site">>}}
    /\ syspath = 1
    /\ sysprefix \in {"/usr", "/opt"}
    /\ venv_sys_path = 0
    /\ activation = NoActivation
    /\ activations = 0

\* activated() up to its yield (lines 201-219). temp_path() keeps the
\* items of sys.path and, when the block is left, makes sys.path a new
\* list of them; self.sys_path is computed on its first use, and its
\* assertion can fail; a failure before the yield leaves by the two
\* context managers of line 206 only.
Activate ==
    /\ activation.pc # "in"
    /\ activations < MaxActivations
    /\ activations' = activations + 1
    /\ LET path == lists[syspath]
           computed == venv_sys_path # 0
           failed == [pc |-> "ended", how |-> "failed",
                      original_path |-> syspath, original_prefix |-> sysprefix,
                      path |-> path, computed |-> computed,
                      cached |-> IF computed THEN lists[venv_sys_path] ELSE <<>>]
       IN \/ /\ ~computed
             /\ lists' = Append(lists, path)
             /\ syspath' = Len(lists) + 1
             /\ activation' = failed
             /\ UNCHANGED <<sysprefix, venv_sys_path>>
          \/ \E script \in ScriptOutcomes, add \in ScriptEffects :
                LET made == IF computed THEN lists ELSE Append(lists, VenvPath)
                    self_sys_path == IF computed THEN venv_sys_path ELSE Len(made)
                    appended == [made EXCEPT ![self_sys_path] = Append(@, passa_path)]
                    run == IF script = "unreadable" THEN appended
                           ELSE [appended EXCEPT ![self_sys_path] = add \o @]
                IN /\ venv_sys_path' = self_sys_path
                   /\ sysprefix' = venv_dir
                   /\ IF script = "runs"
                      THEN /\ lists' = run
                           /\ syspath' = self_sys_path
                           /\ activation' = [failed EXCEPT !.pc = "in", !.how = "none"]
                      ELSE /\ lists' = Append(run, path)
                           /\ syspath' = Len(run) + 1
                           /\ activation' = failed
    /\ UNCHANGED <<cache, chain_but_utils_venv, lookups, arg, version, pinned, cli>>

\* The body completes or raises: the finally block (lines 221-229) sets
\* sys.path to original_path and sys.prefix to original_prefix, and
\* leaving temp_path() then makes sys.path a new list of the items kept.
Deactivate ==
    /\ activation.pc = "in"
    /\ \E how \in {"completed", "raised"} :
          activation' = [activation EXCEPT !.pc = "ended", !.how = how]
    /\ sysprefix' = activation.original_prefix
    /\ lists' = Append(lists, activation.path)
    /\ syspath' = Len(lists) + 1
    /\ UNCHANGED <<cache, chain_but_utils_venv, lookups, arg, version, pinned,
                   cli, venv_sys_path, activations>>

NextVenv == Activate \/ Deactivate

SpecVenv == InitVenv /\ [][NextVenv]_vars

\* C20 as stated: when a use of activated() has ended, whether its body
\* completed or raised or the activation failed, sys.path has the items
\* and sys.prefix the value they had when it was entered, and the cached
\* sys_path list, when it had been computed by then, has the items it had.
C20_ActivatedRestores ==
    activation.pc = "ended" =>
        /\ lists[syspath] = activation.path
        /\ sysprefix = activation.original_prefix
        /\ activation.computed => lists[venv_sys_path] = activation.cached

\* -------------------------------------- the remove command

\* main(options) of cli/remove.py, a step for each call that can fail.
\* Project, PinReuseLocker and lock are not part of the sources at hand:
\* the project loads the two files, remove_keys_from_pipfile drops the
\* named packages from the chosen sections of the Pipfile in memory, and
\* lock(locker) gives whether locking went through, having put the new
\* lock file in memory when it did.
Packages == 1..MaxPackages
Sections == [default : SUBSET Packages, develop : SUBSET Packages]
Options == [packages : (SUBSET Packages) \ {{}}, only : {"none", "dev", "default"}]

\* Project.remove_keys_from_pipfile(packages, default, develop).
remove_keys_from_pipfile(pipfile, packages, default, develop) ==
    [default |-> IF default THEN pipfile.default \ packages ELSE pipfile.default,
     develop |-> IF develop THEN pipfile.develop \ packages ELSE pipfile.develop]

\* The lock file a successful locking makes of a Pipfile: its packages,
\* section by section (what they depend on is left out).
Locked(pipfile) == pipfile

\* Lines 17-23 for the options and the files on disk.
Removed(opts, files) ==
    remove_keys_from_pipfile(files.pipfile, opts.packages,
                             opts.only # "dev", opts.only # "default")

InitRemove ==
    /\ cache = [k \in Keys |-> Absent]
    /\ pc = "idle"
    /\ ireq = NoReq
    /\ last_exc = NoExc
    /\ todo = <<>>
    /\ tiers = NoTiers
    /\ outcome = RetNone
    /\ order = <<>>
    /\ cacheOps = <<>>
    /\ requests = <<>>
    /\ builds = 0
    /\ served = <<>>
    /\ prev = NoPrev
    /\ wheel = <<>>
    /\ reqs = NotRun
    /\ JsonIdle
    /\ CandidateIdle
    /\ LookupsIdle
    /\ UtilsIdle
    /\ VenvIdle
    /\ options \in Options
    /\ \E p \in Sections : disk = Files(p, Locked(p))
    /\ project = Files(NoSections, NoSections)
    /\ step = "start"
    /\ success = "none"
    /\ status = "none"
    /\ writes = <<>>

\* Lines 17-23: the project is loaded and the keys are removed in memory.
RemoveKeys ==
    /\ step = "start"
    /\ project' = Files(Removed(options, disk), disk.lockfile)
    /\ step' = "lock"
    /\ UNCHANGED <<cache, chain_but_utils_venv, lookups, arg, version, pinned, venv,
                   options, disk, success, status, writes>>

\* Lines 25-28: lock(locker) gives True or False, or raises.
Lock ==
    /\ step = "lock"
    /\ \E got \in {"true", "false", "raised"} :
          /\ success' = got
          /\ project' = IF got = "true"
                        THEN [project EXCEPT !.lockfile = Locked(project.pipfile)]
                        ELSE project
          /\ step' = IF got = "true" THEN "write_pipfile" ELSE "done"
          /\ status' = CASE got = "true" -> status
                         [] got = "false" -> "1"
                         [] got = "raised" -> "raised"
    /\ UNCHANGED <<cache, chain_but_utils_venv, lookups, arg, version, pinned, venv,
                   options, disk, writes>>

\* Line 30: project._p.write() writes the Pipfile, or raises.
WritePipfile ==
    /\ step = "write_pipfile"
    /\ \/ /\ disk' = [disk EXCEPT !.pipfile = project.pipfile]
          /\ writes' = Append(writes, "Pipfile")
          /\ step' = "write_lockfile"
          /\ UNCHANGED status
       \/ /\ status' = "raised"
          /\ step' = "done"
          /\ UNCHANGED <<disk, writes>>
    /\ UNCHANGED <<cache, chain_but_utils_venv, lookups, arg, version, pinned, venv,
                   options, project, success>>

\* Lines 31-32: project._l.write() writes the lock file, or raises; main
\* then ends without a return value.
WriteLockfile ==
    /\ step = "write_lockfile"
    /\ \/ /\ disk' = [disk EXCEPT !.lockfile = project.lockfile]
          /\ writes' = Append(writes, "Pipfile.lock")
          /\ status' = "None"
       \/ /\ status' = "raised"
          /\ UNCHANGED <<disk, writes>>
    /\ step' = "done"
    /\ UNCHANGED <<cache, chain_but_utils_venv, lookups, arg, version, pinned, venv,
                   options, project, success>>

NextRemove == RemoveKeys \/ Lock \/ WritePipfile \/ WriteLockfile

SpecRemove == InitRemove /\ [][NextRemove]_vars

\* C21 as stated: a file is written only after locking succeeded; when
\* main has ended the files written are none, or the Pipfile and then the
\* lock file; and when lock(locker) gave False main returns 1 with no file
\* written and the keys removed from the Pipfile in memory.
C21_BothWrittenAfterLock ==
    /\ writes # <<>> => success = "true"
    /\ step = "done" => writes \in {<<>>, <<"Pipfile", "Pipfile.lock">>}
    /\ success = "false" =>
          /\ status = "1"
          /\ writes = <<>>
          /\ project.pipfile = Removed(options, disk)

====
